---- MODULE Spec2Model ----
(***************************************************************************)
(* The Person/Address/Organization/House API of main.py: four in-memory    *)
(* dictionaries and, per entity kind, the create / list / get / update     *)
(* handlers.  A dictionary is a sequence of items [k, v] in insertion      *)
(* order (Python dicts keep it).  A request payload is a partial record:   *)
(* its DOMAIN is the set of fields the client supplied (Pydantic's         *)
(* fields_set), so model_dump(exclude_unset=True) is the payload without   *)
(* the keys that are no field of the model.                                *)
(* JSON null is written by the type of the field it stands in.             *)
(* Timestamps are integers: datetime.utcnow() read off the clock `now`.    *)
(* Email values are drawn already normalised, so EmailStr keeps them.      *)
(***************************************************************************)
EXTENDS Integers, Sequences, FiniteSets, TLC

VARIABLES addresses, persons, organizations, houses, now, nreq, response,
          threads

vars == <<addresses, persons, organizations, houses, now, nreq, response, threads>>
stores == <<addresses, persons, organizations, houses>>

\* ------------------------------------------------------------------ bounds
\* Requests handled in one run of the sequential specification.
MaxReq == 3

\* The last value the clock reaches.
MaxTime == 1

\* Requests handled at once in the concurrent specification.
NThreads == 3

\* ------------------------------------------------------------- JSON values
\* JSON null (Python's None), written by the type of the field it stands in:
\* a scalar, an object, a list of scalars, a list of objects.
None == "None"
NoneObj == [null |-> TRUE]
NoneList == <<None>>
NoneObjList == <<NoneObj>>

\* ------------------------------------------------------------ dict helpers
\* d.get(k, default)
DictGet(d, k, default) == IF k \in DOMAIN d THEN d[k] ELSE default

\* stored.update(patch): every key of patch overwrites or is added.
dict_update(stored, patch) ==
    [k \in DOMAIN stored \cup DOMAIN patch |->
        IF k \in DOMAIN patch THEN patch[k] ELSE stored[k]]

\* The keys of a store, as a set; `k in store`.
Keys(store) == {store[i].k : i \in 1..Len(store)}

\* store[k] for a key that is present.
Lookup(store, k) == LET i == CHOOSE j \in 1..Len(store) : store[j].k = k
                    IN  store[i].v

\* store[k] = v: an existing key keeps its position, a new key is appended.
Put(store, k, v) ==
    IF k \in Keys(store)
    THEN [i \in 1..Len(store) |-> IF store[i].k = k THEN [k |-> k, v |-> v] ELSE store[i]]
    ELSE Append(store, [k |-> k, v |-> v])

\* list(store.values())
Values(store) == [i \in 1..Len(store) |-> store[i].v]

\* [x for x in results if Test(x)]
Filter(results, Test(_)) == SelectSeq(results, Test)

\* The elements of a sequence, as a set.
Range(s) == {s[i] : i \in 1..Len(s)}

\* -------------------------------------------------------------- identifiers
\* uuid4(): a value no record of the process carries yet.  The pool is long
\* enough that no run within MaxReq requests exhausts it.
GenPool == <<"g01", "g02", "g03", "g04", "g05", "g06", "g07", "g08", "g09", "g10",
             "g11", "g12", "g13", "g14", "g15", "g16", "g17", "g18", "g19", "g20">>

uuid4(used) ==
    LET i == CHOOSE j \in 1..Len(GenPool) :
                 /\ GenPool[j] \notin used
                 /\ \A h \in 1..(j - 1) : GenPool[h] \in used
    IN  GenPool[i]

\* n successive uuid4() values, pairwise different.
RECURSIVE uuid4s(_, _)
uuid4s(used, n) ==
    IF n = 0 THEN <<>>
    ELSE LET g == uuid4(used) IN <<g>> \o uuid4s(used \cup {g}, n - 1)

\* What the UUID type accepts, and what UNIType (a fixed-format token) accepts.
UUIDs == {"u1", "u2"} \cup {GenPool[i] : i \in 1..Len(GenPool)}
UNIs == {"abc1234", "xyz9999", "zde3421"}

\* ------------------------------------------------------------------- clock
\* datetime.utcnow() after the clock has advanced by d since the last read.
utcnow(t, d) == t + d

\* The fields of the four update models.  A request body is decoded into
\* the model before the handler runs, and a key that is no field of the model
\* is ignored (Pydantic's default, extra = 'ignore').
AddressUpdateFields == {"street", "city", "state", "postal_code", "country"}
PersonUpdateFields ==
    {"uni", "first_name", "last_name", "email", "phone", "birth_date", "addresses"}
OrganizationUpdateFields == {"org_name", "email", "phone", "address"}
HouseUpdateFields == {"phone", "address", "people"}

\* update.model_dump(exclude_unset=True) keeping every key of the body.
model_dump_keep_extra(body, fields) ==
    body

\* update.model_dump(exclude_unset=True), for `update` decoded from `body`:
\* the fields of the model the body supplies.
model_dump_exclude_unset(body, fields) ==
    LET set == {f \in DOMAIN body : f \in fields}
    IN  IF set = {} THEN <<>> ELSE [f \in set |-> body[f]]

\* ---------------------------------------------------------- Address models
AddressText == {"street", "city", "state", "postal_code", "country"}

\* AddressBase(**d): the identifier defaults to a fresh one, every text field
\* to None.
AddressBase(d, fresh) ==
    [id          |-> DictGet(d, "id", fresh),
     street      |-> DictGet(d, "street", None),
     city        |-> DictGet(d, "city", None),
     state       |-> DictGet(d, "state", None),
     postal_code |-> DictGet(d, "postal_code", None),
     country     |-> DictGet(d, "country", None)]

\* AddressRead(**d): AddressBase plus the two timestamps, each defaulting to
\* its own utcnow() read (t1 for created_at, then t2 for updated_at).
AddressRead(d, fresh, t1, t2) ==
    dict_update(AddressBase(d, fresh),
                [created_at |-> DictGet(d, "created_at", t1),
                 updated_at |-> DictGet(d, "updated_at", t2)])

\* The result of a handler: the HTTP status, the store afterwards and the
\* response body.
Result(status, store, body) == [status |-> status, store |-> store, body |-> body]

\* ------------------------------------------------------- Address endpoints
create_address(store, address, fresh, t1, t2) ==
    LET model == AddressBase(address, fresh)
    IN  IF model.id \in Keys(store)
        THEN Result(400, store, "Address with this ID already exists")
        ELSE LET new == Put(store, model.id, AddressRead(model, fresh, t1, t2))
             IN  Result(201, new, Lookup(new, model.id))

list_addresses(store, street, city, state, postal_code, country) ==
    LET r0 == Values(store)
        t1(a) == a.street = street
        r1 == IF street # None THEN Filter(r0, t1) ELSE r0
        t2(a) == a.city = city
        r2 == IF city # None THEN Filter(r1, t2) ELSE r1
        t3(a) == a.state = state
        r3 == IF state # None THEN Filter(r2, t3) ELSE r2
        t4(a) == a.postal_code = postal_code
        r4 == IF postal_code # None THEN Filter(r3, t4) ELSE r3
        t5(a) == a.country = country
        r5 == IF country # None THEN Filter(r4, t5) ELSE r4
    IN  r5

get_address(store, address_id) ==
    IF address_id \notin Keys(store)
    THEN Result(404, store, "Address not found")
    ELSE Result(200, store, Lookup(store, address_id))

\* update_address merging update.model_dump(): every field of AddressUpdate,
\* the unset ones with their None default.
update_address_dump_all(store, address_id, update, t) ==
    IF address_id \notin Keys(store)
    THEN Result(404, store, "Address not found")
    ELSE LET dump   == [f \in AddressText |-> DictGet(update, f, None)]
             stored == dict_update(Lookup(store, address_id), dump)
             read   == AddressRead(stored, stored.id, stored.created_at, stored.updated_at)
             new    == Put(store, address_id, [read EXCEPT !.updated_at = t])
         IN  Result(200, new, Lookup(new, address_id))

update_address(store, address_id, update, t) ==
    IF address_id \notin Keys(store)
    THEN Result(404, store, "Address not found")
    ELSE LET stored == dict_update(Lookup(store, address_id), update)
             read   == AddressRead(stored, stored.id, stored.created_at, stored.updated_at)
             new    == Put(store, address_id, [read EXCEPT !.updated_at = t])
         IN  Result(200, new, Lookup(new, address_id))

\* ----------------------------------------------------- Organization models
\* What OrganizationBase(**d) raises a ValidationError on: org_name and email
\* are required and not nullable, and so is the address, which must be an
\* object.
OrganizationValid(d) ==
    /\ {"org_name", "email", "address"} \subseteq DOMAIN d
    /\ d.org_name # None
    /\ d.email # None
    /\ d.address # NoneObj

\* OrganizationBase(**d), for a d it accepts: the identifier defaults to
\* fresh[1], the phone to None; the address is built by AddressBase, its
\* identifier defaulting to fresh[2].
OrganizationBase(d, fresh) ==
    [id       |-> DictGet(d, "id", fresh[1]),
     org_name |-> d.org_name,
     email    |-> d.email,
     phone    |-> DictGet(d, "phone", None),
     address  |-> AddressBase(d.address, fresh[2])]

\* OrganizationRead(**d): OrganizationBase plus the two timestamps, each
\* defaulting to its own utcnow() read.
OrganizationRead(d, fresh, t1, t2) ==
    dict_update(OrganizationBase(d, fresh),
                [created_at |-> DictGet(d, "created_at", t1),
                 updated_at |-> DictGet(d, "updated_at", t2)])

\* -------------------------------------------------- Organization endpoints
\* create_organization writing the record before its membership test: the
\* 400 is raised after the store has changed.
create_organization_write_first(store, organization, fresh, t1, t2) ==
    LET model == OrganizationBase(organization, fresh)
        organization_read == OrganizationRead(model, fresh, t1, t2)
        new == Put(store, organization_read.id, organization_read)
    IN  IF model.id \in Keys(store)
        THEN Result(400, new, "Organization with this ID already exists")
        ELSE Result(201, new, organization_read)

create_organization(store, organization, fresh, t1, t2) ==
    LET model == OrganizationBase(organization, fresh)
    IN  IF model.id \in Keys(store)
        THEN Result(400, store, "Organization with this ID already exists")
        ELSE LET organization_read == OrganizationRead(model, fresh, t1, t2)
             IN  Result(201, Put(store, organization_read.id, organization_read),
                        organization_read)

list_organizations(store, org_name, email, phone, city, country) ==
    LET r0 == Values(store)
        t1(p) == p.org_name = org_name
        r1 == IF org_name # None THEN Filter(r0, t1) ELSE r0
        t2(p) == p.email = email
        r2 == IF email # None THEN Filter(r1, t2) ELSE r1
        t3(p) == p.phone = phone
        r3 == IF phone # None THEN Filter(r2, t3) ELSE r2
        t4(p) == p.address.city = city
        r4 == IF city # None THEN Filter(r3, t4) ELSE r3
        t5(p) == p.address.country = country
        r5 == IF country # None THEN Filter(r4, t5) ELSE r4
    IN  r5

get_organization(store, organization_id) ==
    IF organization_id \notin Keys(store)
    THEN Result(404, store, "Organization not found")
    ELSE Result(200, store, Lookup(store, organization_id))

\* OrganizationRead(**stored) raises on a merged dict it does not accept; the
\* exception leaves the handler before the store is written (a 500).
\* update_organization merging a supplied address into the stored one field
\* by field (a deep merge).
update_organization_deep(store, organization_id, update, fresh, t) ==
    IF organization_id \notin Keys(store)
    THEN Result(404, store, "Organization not found")
    ELSE LET old    == Lookup(store, organization_id)
             deep   == IF "address" \in DOMAIN update /\ update.address # NoneObj
                       THEN dict_update(update,
                                [address |-> dict_update(old.address, update.address)])
                       ELSE update
             stored == dict_update(old, deep)
         IN  IF ~OrganizationValid(stored)
             THEN Result(500, store, "Internal Server Error")
             ELSE LET read == OrganizationRead(stored, fresh, stored.created_at,
                                               stored.updated_at)
                      new  == Put(store, organization_id, [read EXCEPT !.updated_at = t])
                  IN  Result(200, new, Lookup(new, organization_id))

update_organization(store, organization_id, update, fresh, t) ==
    IF organization_id \notin Keys(store)
    THEN Result(404, store, "Organization not found")
    ELSE LET stored == dict_update(Lookup(store, organization_id), update)
         IN  IF ~OrganizationValid(stored)
             THEN Result(500, store, "Internal Server Error")
             ELSE LET read == OrganizationRead(stored, fresh, stored.created_at,
                                               stored.updated_at)
                      new  == Put(store, organization_id, [read EXCEPT !.updated_at = t])
                  IN  Result(200, new, Lookup(new, organization_id))

\* ------------------------------------------------------------ House models
\* HouseBase.address is declared `address: AddressBase = Field(...),` with a
\* trailing comma: the class attribute is a one-element tuple, which Pydantic
\* takes as the field's default value, so the field is not required.
HouseAddressDefault == [fieldinfo |-> "Field(...)"]

\* HouseCreate(**d), which does not validate its defaults.
HouseCreate(d, fresh) ==
    [id      |-> DictGet(d, "id", fresh[1]),
     phone   |-> DictGet(d, "phone", None),
     address |-> IF "address" \in DOMAIN d THEN AddressBase(d.address, fresh[2])
                 ELSE HouseAddressDefault,
     people  |-> DictGet(d, "people", <<>>)]

\* HouseRead(**d) taking the default of HouseBase.address for an address.
HouseValid_default_address(d) ==
    /\ "address" \in DOMAIN d => d.address # NoneObj
    /\ "people" \in DOMAIN d => /\ d.people # NoneList
                                /\ \A i \in 1..Len(d.people) : d.people[i] \in UNIs

\* What HouseRead(**d) accepts: an address object and a list of UNI tokens.
HouseValid(d) ==
    /\ "address" \in DOMAIN d => /\ d.address # NoneObj
                                 /\ d.address # HouseAddressDefault
    /\ "people" \in DOMAIN d => /\ d.people # NoneList
                                /\ \A i \in 1..Len(d.people) : d.people[i] \in UNIs

\* HouseRead(**d), for a d it accepts.
HouseRead(d, fresh, t1, t2) ==
    [id         |-> DictGet(d, "id", fresh[1]),
     phone      |-> DictGet(d, "phone", None),
     address    |-> AddressBase(d.address, fresh[2]),
     people     |-> DictGet(d, "people", <<>>),
     created_at |-> DictGet(d, "created_at", t1),
     updated_at |-> DictGet(d, "updated_at", t2)]

\* What HouseUpdate(**d) accepts: people is Optional[List[UUID]].
HouseUpdate(d) ==
    "people" \in DOMAIN d /\ d.people # NoneList
        => \A i \in 1..Len(d.people) : d.people[i] \in UUIDs

\* --------------------------------------------------------- House endpoints
\* create_house without its membership test: the new record overwrites.
create_house_overwrite(store, house, fresh, t1, t2) ==
    LET model == HouseCreate(house, fresh)
    IN  IF ~HouseValid(model)
        THEN Result(500, store, "Internal Server Error")
        ELSE LET house_read == HouseRead(model, fresh, t1, t2)
             IN  Result(201, Put(store, house_read.id, house_read), house_read)

create_house(store, house, fresh, t1, t2) ==
    LET model == HouseCreate(house, fresh)
    IN  IF model.id \in Keys(store)
        THEN Result(400, store, "House with this ID already exists")
        ELSE IF ~HouseValid(model)
        THEN Result(500, store, "Internal Server Error")
        ELSE LET house_read == HouseRead(model, fresh, t1, t2)
             IN  Result(201, Put(store, house_read.id, house_read), house_read)

\* list_houses without its resident filter.
list_houses_no_person(store, phone, person_uni, city, country) ==
    LET r0 == Values(store)
        t1(p) == p.phone = phone
        r1 == IF phone # None THEN Filter(r0, t1) ELSE r0
        t2(p) == p.address.city = city
        r2 == IF city # None THEN Filter(r1, t2) ELSE r1
        t3(p) == p.address.country = country
        r3 == IF country # None THEN Filter(r2, t3) ELSE r2
    IN  r3

list_houses(store, phone, person_uni, city, country) ==
    LET r0 == Values(store)
        t1(p) == p.phone = phone
        r1 == IF phone # None THEN Filter(r0, t1) ELSE r0
        t2(p) == p.address.city = city
        r2 == IF city # None THEN Filter(r1, t2) ELSE r1
        t3(p) == p.address.country = country
        r3 == IF country # None THEN Filter(r2, t3) ELSE r2
        t4(p) == \E i \in 1..Len(p.people) : p.people[i] = person_uni
        r4 == IF person_uni # None THEN Filter(r3, t4) ELSE r3
    IN  r4

get_house(store, house_id) ==
    IF house_id \notin Keys(store)
    THEN Result(404, store, "House not found")
    ELSE Result(200, store, Lookup(store, house_id))

update_house(store, house_id, update, fresh, t) ==
    IF house_id \notin Keys(store)
    THEN Result(404, store, "House not found")
    ELSE LET stored == dict_update(Lookup(store, house_id), update)
         IN  IF ~HouseValid(stored)
             THEN Result(500, store, "Internal Server Error")
             ELSE LET read == HouseRead(stored, fresh, stored.created_at, stored.updated_at)
                      new  == Put(store, house_id, [read EXCEPT !.updated_at = t])
                  IN  Result(200, new, Lookup(new, house_id))

\* ----------------------------------------------------------- Person models
\* str(date): the ISO form YYYY-MM-DD of a date <<year, month, day>>.
Pad(n, width) ==
    LET digits == ToString(n)
    IN  IF width = 4
        THEN (IF n < 10 THEN "000" ELSE IF n < 100 THEN "00"
              ELSE IF n < 1000 THEN "0" ELSE "") \o digits
        ELSE (IF n < 10 THEN "0" ELSE "") \o digits

str_date(d) == Pad(d[1], 4) \o "-" \o Pad(d[2], 2) \o "-" \o Pad(d[3], 2)

\* What PersonRead(**d) accepts: the UNI, the names, the email and the birth
\* date are there, and the first four are not null.
PersonValid(d) ==
    /\ {"uni", "first_name", "last_name", "email", "birth_date"} \subseteq DOMAIN d
    /\ d.uni \in UNIs
    /\ d.first_name # None
    /\ d.last_name # None
    /\ d.email # None
    /\ "addresses" \in DOMAIN d => d.addresses # NoneObjList

\* PersonBase(**d), for a d it accepts: the identifier defaults to fresh[1],
\* the i-th embedded address is built by AddressBase with fresh[1 + i].
PersonBase(d, fresh) ==
    LET given == DictGet(d, "addresses", <<>>)
    IN  [id         |-> DictGet(d, "id", fresh[1]),
         uni        |-> d.uni,
         first_name |-> d.first_name,
         last_name  |-> d.last_name,
         email      |-> d.email,
         phone      |-> DictGet(d, "phone", None),
         birth_date |-> d.birth_date,
         addresses  |-> [i \in 1..Len(given) |-> AddressBase(given[i], fresh[1 + i])]]

PersonRead(d, fresh, t1, t2) ==
    dict_update(PersonBase(d, fresh),
                [created_at |-> DictGet(d, "created_at", t1),
                 updated_at |-> DictGet(d, "updated_at", t2)])

\* -------------------------------------------------------- Person endpoints
\* create_person with the membership test of the other three create handlers.
create_person_checked(store, person, fresh, t1, t2) ==
    LET person_read == PersonRead(PersonBase(person, fresh), fresh, t1, t2)
    IN  IF person_read.id \in Keys(store)
        THEN Result(400, store, "Person with this ID already exists")
        ELSE Result(201, Put(store, person_read.id, person_read), person_read)

create_person(store, person, fresh, t1, t2) ==
    LET person_read == PersonRead(PersonBase(person, fresh), fresh, t1, t2)
    IN  Result(201, Put(store, person_read.id, person_read), person_read)

\* list_persons applying the city and country filters jointly: one address
\* has to match both.
list_persons_joint(store, uni, first_name, last_name, email, phone, birth_date, city, country) ==
    LET r0 == Values(store)
        t1(p) == p.uni = uni
        r1 == IF uni # None THEN Filter(r0, t1) ELSE r0
        t2(p) == p.first_name = first_name
        r2 == IF first_name # None THEN Filter(r1, t2) ELSE r1
        t3(p) == p.last_name = last_name
        r3 == IF last_name # None THEN Filter(r2, t3) ELSE r2
        t4(p) == p.email = email
        r4 == IF email # None THEN Filter(r3, t4) ELSE r3
        t5(p) == p.phone = phone
        r5 == IF phone # None THEN Filter(r4, t5) ELSE r4
        t6(p) == str_date(p.birth_date) = birth_date
        r6 == IF birth_date # None THEN Filter(r5, t6) ELSE r5
        t7(p) == \E i \in 1..Len(p.addresses) :
                     /\ city # None => p.addresses[i].city = city
                     /\ country # None => p.addresses[i].country = country
        r8 == IF city # None \/ country # None THEN Filter(r6, t7) ELSE r6
    IN  r8

list_persons(store, uni, first_name, last_name, email, phone, birth_date, city, country) ==
    LET r0 == Values(store)
        t1(p) == p.uni = uni
        r1 == IF uni # None THEN Filter(r0, t1) ELSE r0
        t2(p) == p.first_name = first_name
        r2 == IF first_name # None THEN Filter(r1, t2) ELSE r1
        t3(p) == p.last_name = last_name
        r3 == IF last_name # None THEN Filter(r2, t3) ELSE r2
        t4(p) == p.email = email
        r4 == IF email # None THEN Filter(r3, t4) ELSE r3
        t5(p) == p.phone = phone
        r5 == IF phone # None THEN Filter(r4, t5) ELSE r4
        t6(p) == str_date(p.birth_date) = birth_date
        r6 == IF birth_date # None THEN Filter(r5, t6) ELSE r5
        t7(p) == \E i \in 1..Len(p.addresses) : p.addresses[i].city = city
        r7 == IF city # None THEN Filter(r6, t7) ELSE r6
        t8(p) == \E i \in 1..Len(p.addresses) : p.addresses[i].country = country
        r8 == IF country # None THEN Filter(r7, t8) ELSE r7
    IN  r8

get_person(store, person_id) ==
    IF person_id \notin Keys(store)
    THEN Result(404, store, "Person not found")
    ELSE Result(200, store, Lookup(store, person_id))

update_person(store, person_id, update, fresh, t) ==
    IF person_id \notin Keys(store)
    THEN Result(404, store, "Person not found")
    ELSE LET stored == dict_update(Lookup(store, person_id), update)
         IN  IF ~PersonValid(stored)
             THEN Result(500, store, "Internal Server Error")
             ELSE LET read == PersonRead(stored, fresh, stored.created_at, stored.updated_at)
                      new  == Put(store, person_id, [read EXCEPT !.updated_at = t])
                  IN  Result(200, new, Lookup(new, person_id))

\* ------------------------------------------------------------------ inputs
\* Identifiers a client names in a path: one it also supplies on create, and
\* the first one the server generates.  Updates are sent to the former.
TargetIds == {"u1", GenPool[1]}
UpdateIds == {"u1"}

AddressCreates ==
    {[id |-> "u1", street |-> "1 Main St", city |-> "NYC"],
     [id |-> "u1", city |-> "Boston", country |-> "US"],
     [city |-> "NYC", country |-> "US"]}

AddressPatches ==
    {[id |-> "u2", city |-> "Boston"],
     [street |-> None, country |-> "US"],
     <<>>}

AddressQueries ==
    {<<>>,
     [city |-> "NYC"],
     [city |-> "NYC", country |-> "US"]}

PersonCreates ==
    {[id |-> "u1", uni |-> "abc1234", first_name |-> "Ada", last_name |-> "Lovelace",
      email |-> "ada@example.com", phone |-> "+1-212-555-0199",
      birth_date |-> <<1815, 12, 10>>,
      addresses |-> <<[id |-> "u1", city |-> "London", country |-> "US"],
                      [city |-> "NYC", country |-> "UK"]>>],
     [id |-> "u1", uni |-> "xyz9999", first_name |-> "Alan", last_name |-> "Turing",
      email |-> "alan@example.com", birth_date |-> <<1912, 6, 23>>,
      addresses |-> <<[city |-> "London", country |-> "UK"]>>],
     [uni |-> "zde3421", first_name |-> "Alan", last_name |-> "Kay",
      email |-> "kay@example.com", birth_date |-> <<1940, 5, 17>>]}

PersonPatches ==
    {[id |-> "u2", first_name |-> "Grace", phone |-> None],
     [addresses |-> <<[city |-> "Boston"]>>]}

PersonQueries ==
    {<<>>,
     [first_name |-> "Alan", birth_date |-> "1912-06-23"],
     [birth_date |-> "1912-6-23"],
     [city |-> "London", country |-> "UK"]}

OrganizationCreates ==
    {[id |-> "u1", org_name |-> "Computer Science", email |-> "cs@columbia.edu",
      phone |-> "+1-212-555-0199",
      address |-> [id |-> "u1", street |-> "123 Main St", city |-> "NYC", country |-> "US"]],
     [id |-> "u1", org_name |-> "Math", email |-> "math@columbia.edu",
      address |-> [city |-> "London", country |-> "UK"]],
     [org_name |-> "Math", email |-> "math@columbia.edu",
      address |-> [city |-> "NYC", country |-> "UK"]]}

OrganizationPatches ==
    {[id |-> "u2", org_name |-> "Math", phone |-> None],
     [address |-> [city |-> "London"]],
     [email |-> None],
     [address |-> NoneObj]}

OrganizationQueries ==
    {<<>>,
     [org_name |-> "Math", email |-> "math@columbia.edu"],
     [city |-> "NYC", country |-> "US", phone |-> "+1-212-555-0199"]}

HouseCreates ==
    {[id |-> "u1", phone |-> "+1-212-555-0199",
      address |-> [id |-> "u1", street |-> "123 Main St", city |-> "NYC", country |-> "US"],
      people |-> <<"abc1234">>],
     [id |-> "u1", address |-> [city |-> "London", country |-> "UK"],
      people |-> <<"zde3421", "abc1234">>],
     [address |-> [city |-> "NYC", country |-> "UK"]],
     [phone |-> "+1-212-555-0199", people |-> <<"abc1234">>]}

HousePatches ==
    {[people |-> <<"xyz9999">>],
     [people |-> <<"u2">>],
     [id |-> "u2", people |-> <<>>],
     [people |-> NoneList],
     [phone |-> None, address |-> [city |-> "London"]],
     [address |-> NoneObj]}

HouseQueries ==
    {<<>>,
     [person_uni |-> "abc1234", phone |-> "+1-212-555-0199"],
     [city |-> "NYC", country |-> "US"]}

\* -------------------------------------------------------------------- state
\* Every identifier some stored record carries: the keys of the four stores
\* and the identifiers of the embedded addresses.
EmbeddedIds ==
    {organizations[i].v.address.id : i \in 1..Len(organizations)}
    \cup {houses[i].v.address.id : i \in 1..Len(houses)}
    \cup UNION {{persons[i].v.addresses[j].id : j \in 1..Len(persons[i].v.addresses)} :
                i \in 1..Len(persons)}

UsedIds ==
    Keys(addresses) \cup Keys(persons) \cup Keys(organizations) \cup Keys(houses)
    \cup EmbeddedIds

\* The entity kinds, those whose create handler tests for a duplicate, and
\* the store of a kind.
Kinds == {"address", "person", "organization", "house"}
CheckedKinds == {"address", "organization", "house"}

StoreOf(kind) ==
    CASE kind = "address" -> addresses
      [] kind = "person" -> persons
      [] kind = "organization" -> organizations
      [] kind = "house" -> houses

\* The request handled last and the response it got: `payload` is what the
\* handler was given, `sent` the body the client sent.
NoResponse == [op |-> "none", kind |-> "none", id |-> None, payload |-> <<>>,
               sent |-> <<>>, status |-> 0, body |-> <<>>]

Response(op, kind, id, payload, status, body) ==
    [op |-> op, kind |-> kind, id |-> id, payload |-> payload,
     sent |-> payload, status |-> status, body |-> body]

Init ==
    /\ addresses = <<>>
    /\ persons = <<>>
    /\ organizations = <<>>
    /\ houses = <<>>
    /\ now = 0
    /\ nreq = 0
    /\ response = NoResponse
    /\ threads = <<>>

\* By how much the clock may have advanced since it read t, up to MaxTime;
\* Ticks is that since the last read.
TicksFrom(t) == {d \in {0, 1} : t + d <= MaxTime}

Ticks == TicksFrom(now)

\* ----------------------------------------------------------------- actions
\* One action per handler.  A create reads the clock twice, once per
\* timestamp default, and the clock may have advanced before each read: since
\* the last request for created_at, since created_at for updated_at.  An
\* update reads it once, after it may have advanced.
CreateAddress ==
    /\ nreq < MaxReq
    /\ \E p \in AddressCreates, d1 \in Ticks, d2 \in {0, 1} :
         LET t1 == utcnow(now, d1)
             t2 == utcnow(t1, d2)
             r  == create_address(addresses, p, uuid4(UsedIds), t1, t2)
         IN  /\ d2 \in TicksFrom(t1)
             /\ addresses' = r.store
             /\ now' = IF r.status = 201 THEN t2 ELSE now
             /\ response' = Response("create", "address", DictGet(p, "id", None), p,
                                     r.status, r.body)
    /\ nreq' = nreq + 1
    /\ UNCHANGED <<persons, organizations, houses, threads>>

ListAddresses ==
    /\ nreq < MaxReq
    /\ \E q \in AddressQueries :
         response' = Response("list", "address", None, q, 200,
                              list_addresses(addresses,
                                             DictGet(q, "street", None),
                                             DictGet(q, "city", None),
                                             DictGet(q, "state", None),
                                             DictGet(q, "postal_code", None),
                                             DictGet(q, "country", None)))
    /\ nreq' = nreq + 1
    /\ UNCHANGED <<stores, now, threads>>

GetAddress ==
    /\ nreq < MaxReq
    /\ \E id \in TargetIds :
         LET r == get_address(addresses, id)
         IN  response' = Response("get", "address", id, <<>>, r.status, r.body)
    /\ nreq' = nreq + 1
    /\ UNCHANGED <<stores, now, threads>>

\* update_address with the stores sharing their addresses: the update also
\* reaches the address an Organization embeds under the same identifier.
UpdateAddress_shared ==
    /\ nreq < MaxReq
    /\ \E id \in UpdateIds, sent \in AddressPatches, d \in Ticks :
         LET p == model_dump_exclude_unset(sent, AddressUpdateFields)
             t == utcnow(now, d)
             r == update_address(addresses, id, p, t)
         IN  /\ addresses' = r.store
             /\ organizations' =
                    [i \in 1..Len(organizations) |->
                        IF r.status = 200 /\ organizations[i].v.address.id = id
                        THEN [organizations[i] EXCEPT
                                 !.v.address = [f \in {"id"} \cup AddressText |-> r.body[f]]]
                        ELSE organizations[i]]
             /\ now' = IF r.status = 200 THEN t ELSE now
             /\ response' = [Response("update", "address", id, p, r.status, r.body)
                               EXCEPT !.sent = sent]
    /\ nreq' = nreq + 1
    /\ UNCHANGED <<persons, houses, threads>>

UpdateAddress ==
    /\ nreq < MaxReq
    /\ \E id \in UpdateIds, sent \in AddressPatches, d \in Ticks :
         LET p == model_dump_exclude_unset(sent, AddressUpdateFields)
             t == utcnow(now, d)
             r == update_address(addresses, id, p, t)
         IN  /\ addresses' = r.store
             /\ now' = IF r.status = 200 THEN t ELSE now
             /\ response' = [Response("update", "address", id, p, r.status, r.body)
                               EXCEPT !.sent = sent]
    /\ nreq' = nreq + 1
    /\ UNCHANGED <<persons, organizations, houses, threads>>

CreatePerson ==
    /\ nreq < MaxReq
    /\ \E p \in PersonCreates, d1 \in Ticks, d2 \in {0, 1} :
         LET t1 == utcnow(now, d1)
             t2 == utcnow(t1, d2)
             r  == create_person(persons, p, uuid4s(UsedIds, 3), t1, t2)
         IN  /\ d2 \in TicksFrom(t1)
             /\ persons' = r.store
             /\ now' = t2
             /\ response' = Response("create", "person", DictGet(p, "id", None), p,
                                     r.status, r.body)
    /\ nreq' = nreq + 1
    /\ UNCHANGED <<addresses, organizations, houses, threads>>

ListPersons ==
    /\ nreq < MaxReq
    /\ \E q \in PersonQueries :
         response' = Response("list", "person", None, q, 200,
                              list_persons(persons,
                                           DictGet(q, "uni", None),
                                           DictGet(q, "first_name", None),
                                           DictGet(q, "last_name", None),
                                           DictGet(q, "email", None),
                                           DictGet(q, "phone", None),
                                           DictGet(q, "birth_date", None),
                                           DictGet(q, "city", None),
                                           DictGet(q, "country", None)))
    /\ nreq' = nreq + 1
    /\ UNCHANGED <<stores, now, threads>>

GetPerson ==
    /\ nreq < MaxReq
    /\ \E id \in TargetIds :
         LET r == get_person(persons, id)
         IN  response' = Response("get", "person", id, <<>>, r.status, r.body)
    /\ nreq' = nreq + 1
    /\ UNCHANGED <<stores, now, threads>>

UpdatePerson ==
    /\ nreq < MaxReq
    /\ \E id \in UpdateIds, sent \in PersonPatches, d \in Ticks :
         LET p == model_dump_exclude_unset(sent, PersonUpdateFields)
             t == utcnow(now, d)
             r == update_person(persons, id, p, <<None>> \o uuid4s(UsedIds, 2), t)
         IN  /\ persons' = r.store
             /\ now' = IF r.status = 200 THEN t ELSE now
             /\ response' = [Response("update", "person", id, p, r.status, r.body)
                               EXCEPT !.sent = sent]
    /\ nreq' = nreq + 1
    /\ UNCHANGED <<addresses, organizations, houses, threads>>

CreateOrganization ==
    /\ nreq < MaxReq
    /\ \E p \in OrganizationCreates, d1 \in Ticks, d2 \in {0, 1} :
         LET t1 == utcnow(now, d1)
             t2 == utcnow(t1, d2)
             r  == create_organization(organizations, p, uuid4s(UsedIds, 2), t1, t2)
         IN  /\ d2 \in TicksFrom(t1)
             /\ organizations' = r.store
             /\ now' = IF r.status = 201 THEN t2 ELSE now
             /\ response' = Response("create", "organization", DictGet(p, "id", None), p,
                                     r.status, r.body)
    /\ nreq' = nreq + 1
    /\ UNCHANGED <<addresses, persons, houses, threads>>

ListOrganizations ==
    /\ nreq < MaxReq
    /\ \E q \in OrganizationQueries :
         response' = Response("list", "organization", None, q, 200,
                              list_organizations(organizations,
                                                 DictGet(q, "org_name", None),
                                                 DictGet(q, "email", None),
                                                 DictGet(q, "phone", None),
                                                 DictGet(q, "city", None),
                                                 DictGet(q, "country", None)))
    /\ nreq' = nreq + 1
    /\ UNCHANGED <<stores, now, threads>>

GetOrganization ==
    /\ nreq < MaxReq
    /\ \E id \in TargetIds :
         LET r == get_organization(organizations, id)
         IN  response' = Response("get", "organization", id, <<>>, r.status, r.body)
    /\ nreq' = nreq + 1
    /\ UNCHANGED <<stores, now, threads>>

UpdateOrganization ==
    /\ nreq < MaxReq
    /\ \E id \in UpdateIds, sent \in OrganizationPatches, d \in Ticks :
         LET p == model_dump_exclude_unset(sent, OrganizationUpdateFields)
             t == utcnow(now, d)
             r == update_organization(organizations, id, p,
                                      <<None>> \o uuid4s(UsedIds, 1), t)
         IN  /\ organizations' = r.store
             /\ now' = IF r.status = 200 THEN t ELSE now
             /\ response' = [Response("update", "organization", id, p, r.status, r.body)
                               EXCEPT !.sent = sent]
    /\ nreq' = nreq + 1
    /\ UNCHANGED <<addresses, persons, houses, threads>>

CreateHouse ==
    /\ nreq < MaxReq
    /\ \E p \in HouseCreates, d1 \in Ticks, d2 \in {0, 1} :
         LET t1 == utcnow(now, d1)
             t2 == utcnow(t1, d2)
             r  == create_house(houses, p, uuid4s(UsedIds, 2), t1, t2)
         IN  /\ d2 \in TicksFrom(t1)
             /\ houses' = r.store
             /\ now' = IF r.status = 201 THEN t2 ELSE now
             /\ response' = Response("create", "house", DictGet(p, "id", None), p,
                                     r.status, r.body)
    /\ nreq' = nreq + 1
    /\ UNCHANGED <<addresses, persons, organizations, threads>>

ListHouses ==
    /\ nreq < MaxReq
    /\ \E q \in HouseQueries :
         response' = Response("list", "house", None, q, 200,
                              list_houses(houses,
                                          DictGet(q, "phone", None),
                                          DictGet(q, "person_uni", None),
                                          DictGet(q, "city", None),
                                          DictGet(q, "country", None)))
    /\ nreq' = nreq + 1
    /\ UNCHANGED <<stores, now, threads>>

GetHouse ==
    /\ nreq < MaxReq
    /\ \E id \in TargetIds :
         LET r == get_house(houses, id)
         IN  response' = Response("get", "house", id, <<>>, r.status, r.body)
    /\ nreq' = nreq + 1
    /\ UNCHANGED <<stores, now, threads>>

\* The request body is decoded into HouseUpdate before the handler runs; a
\* body it rejects is answered 422 and the handler is not called.
UpdateHouse ==
    /\ nreq < MaxReq
    /\ \E id \in UpdateIds, sent \in HousePatches, d \in Ticks :
         LET p == model_dump_exclude_unset(sent, HouseUpdateFields)
             t == utcnow(now, d)
             r == IF HouseUpdate(p)
                  THEN update_house(houses, id, p, <<None>> \o uuid4s(UsedIds, 1), t)
                  ELSE Result(422, houses, "Unprocessable Entity")
         IN  /\ houses' = r.store
             /\ now' = IF r.status = 200 THEN t ELSE now
             /\ response' = [Response("update", "house", id, p, r.status, r.body)
                               EXCEPT !.sent = sent]
    /\ nreq' = nreq + 1
    /\ UNCHANGED <<addresses, persons, organizations, threads>>

Next ==
    \/ CreateAddress
    \/ ListAddresses
    \/ GetAddress
    \/ UpdateAddress
    \/ CreatePerson
    \/ ListPersons
    \/ GetPerson
    \/ UpdatePerson
    \/ CreateOrganization
    \/ ListOrganizations
    \/ GetOrganization
    \/ UpdateOrganization
    \/ CreateHouse
    \/ ListHouses
    \/ GetHouse
    \/ UpdateHouse

Spec == Init /\ [][Next]_vars

\* ------------------------------------------------------------- concurrency
\* FastAPI runs a `def` endpoint in a worker thread, so several handlers run
\* at once and a thread may be descheduled between two statements, and
\* between the evaluation of the two sides of an assignment.  A thread
\* handles one request.  Of a create handler these are the steps:
\*   check   `if x.id in store: raise HTTPException(400)`
\*   build   `XRead(**x.model_dump())`, which reads the clock twice
\*   write   `store[x.id] = <the record built>`
\*   return  `return addresses[address.id]` (create_address reads the store
\*           again; the other handlers return the record they built);
\* of update_address:
\*   read    the 404 test, `stored = addresses[address_id].model_dump()` and
\*           `stored.update(update.model_dump(exclude_unset=True))`
\*   write   `addresses[address_id] = AddressRead(**stored)`
\*   clock   the right-hand side `datetime.utcnow().isoformat()`
\*   target  `addresses[address_id]`, the object to assign to
\*   stamp   `<that object>.updated_at = <that value>`
\*   return  `return addresses[address_id]`;
\* get_address and list_addresses are one step each.  A handler returns the
\* stored objects themselves, and FastAPI serialises them into the response
\* after the handler has returned (step respond): what another thread
\* assigns to such an object in between is in the response.
\*
\* A request makes at most one record object (`XRead(...)` of a create,
\* `AddressRead(**stored)` of an update) and a thread handles one request,
\* so an object is named by the thread that made it.  A thread's `body` is
\* the content of the objects it holds, `refs` the makers of those objects,
\* and `kept` tells whether the object the thread made is the one its store
\* holds now: a write to the store under an identifier replaces the object
\* there, an assignment to updated_at changes the object for every thread
\* that holds it, stored or not.
Threads == 1..NThreads

Idle == [pc |-> "idle", op |-> "none", kind |-> "none", id |-> None,
         payload |-> <<>>, model |-> <<>>, clock |-> 0, status |-> 0, body |-> <<>>,
         refs |-> {}, kept |-> FALSE]

\* The create payloads that name their identifier.
ConcCreates(kind) ==
    LET all == CASE kind = "address" -> AddressCreates
                 [] kind = "organization" -> OrganizationCreates
                 [] kind = "house" -> HouseCreates
    IN  {p \in all : "id" \in DOMAIN p /\ (kind = "address" \/ "address" \in DOMAIN p)}

\* XCreate(**payload): the request body decoded before the handler is called.
CreateModel(kind, p, fresh) ==
    CASE kind = "address" -> AddressBase(p, fresh[1])
      [] kind = "organization" -> OrganizationBase(p, fresh)
      [] kind = "house" -> HouseCreate(p, fresh)

\* XRead(**x.model_dump())
ReadModel(kind, model, fresh, t1, t2) ==
    CASE kind = "address" -> AddressRead(model, fresh[1], t1, t2)
      [] kind = "organization" -> OrganizationRead(model, fresh, t1, t2)
      [] kind = "house" -> HouseRead(model, fresh, t1, t2)

\* The identifiers the decoded create payloads of the running threads carry.
ThreadIds ==
    UNION {IF threads[t].op # "create" THEN {}
           ELSE {threads[t].model.id} \cup
                (IF threads[t].kind = "address" THEN {}
                 ELSE {threads[t].model.address.id}) : t \in Threads}

\* The stores with the store of `kind` replaced by `new`.
WriteStore(kind, new) ==
    /\ addresses' = IF kind = "address" THEN new ELSE addresses
    /\ organizations' = IF kind = "organization" THEN new ELSE organizations
    /\ houses' = IF kind = "house" THEN new ELSE houses
    /\ persons' = persons

\* `store[k] = <a new object>`: the object stored under k until now, whoever
\* made it, is no longer the stored one.
Unlink(ths, kind, k) ==
    [w \in Threads |->
        IF ths[w].kind = kind /\ ths[w].id = k
        THEN [ths[w] EXCEPT !.kept = FALSE]
        ELSE ths[w]]

\* `store[k]`: the maker of the object stored under k.
StoredMaker(kind, k) ==
    CHOOSE w \in Threads : threads[w].kind = kind /\ threads[w].id = k /\ threads[w].kept

\* `<the object made by m>.updated_at = t`, as the threads in `ths` that hold
\* that object see it.
Restamp(ths, m, t) ==
    [w \in Threads |->
        IF m \in ths[w].refs
        THEN IF ths[w].op = "list"
             THEN [ths[w] EXCEPT !.body =
                      [i \in 1..Len(@) |-> IF @[i].id = ths[m].id
                                           THEN [@[i] EXCEPT !.updated_at = t]
                                           ELSE @[i]]]
             ELSE [ths[w] EXCEPT !.body.updated_at = t]
        ELSE ths[w]]

ConcInit ==
    /\ addresses = <<>>
    /\ persons = <<>>
    /\ organizations = <<>>
    /\ houses = <<>>
    /\ now = 0
    /\ nreq = 0
    /\ response = NoResponse
    /\ threads = [t \in Threads |-> Idle]

\* A Create request arrives and is decoded; its handler is about to run.
CreateStart(t) ==
    /\ threads[t].pc = "idle"
    /\ \E kind \in CheckedKinds : \E p \in ConcCreates(kind) :
         threads' = [threads EXCEPT ![t] =
                        [Idle EXCEPT !.pc = "check", !.op = "create", !.kind = kind,
                                     !.id = p.id, !.payload = p,
                                     !.model = CreateModel(kind, p,
                                                   uuid4s(UsedIds \cup ThreadIds, 2))]]
    /\ UNCHANGED <<stores, now, nreq, response>>

\* The detail of the 400 a Create of a stored identifier is answered with.
AlreadyExists(kind) ==
    CASE kind = "address" -> "Address with this ID already exists"
      [] kind = "organization" -> "Organization with this ID already exists"
      [] kind = "house" -> "House with this ID already exists"

\* `if x.id in store: raise HTTPException(status_code=400, detail=...)`
CreateCheck(t) ==
    /\ threads[t].pc = "check"
    /\ LET kind == threads[t].kind
       IN  IF threads[t].model.id \in Keys(StoreOf(kind))
           THEN threads' = [threads EXCEPT ![t].pc = "done", ![t].status = 400,
                                           ![t].body = AlreadyExists(kind)]
           ELSE threads' = [threads EXCEPT ![t].pc = "build"]
    /\ UNCHANGED <<stores, now, nreq, response>>

\* `XRead(**x.model_dump())`: the record is built, its timestamps read off
\* the clock, which may have advanced before each read.
CreateBuild(t) ==
    /\ threads[t].pc = "build"
    /\ \E d1 \in Ticks, d2 \in {0, 1} :
         LET t1 == utcnow(now, d1)
             t2 == utcnow(t1, d2)
         IN  /\ d2 \in TicksFrom(t1)
             /\ now' = t2
             /\ threads' = [threads EXCEPT
                               ![t].pc = "write",
                               ![t].body = ReadModel(threads[t].kind, threads[t].model,
                                                     <<None, None>>, t1, t2),
                               ![t].refs = {t}]
    /\ UNCHANGED <<stores, nreq, response>>

\* `store[x.id] = <the record built>`; create_organization and create_house
\* then return that record.
CreateWrite(t) ==
    /\ threads[t].pc = "write" /\ threads[t].op = "create"
    /\ LET kind == threads[t].kind
           read == threads[t].body
       IN  /\ WriteStore(kind, Put(StoreOf(kind), read.id, read))
           /\ threads' = [Unlink(threads, kind, read.id) EXCEPT
                             ![t].pc = IF kind = "address" THEN "return" ELSE "respond",
                             ![t].kept = TRUE]
    /\ UNCHANGED <<now, nreq, response>>

\* create_address: `return addresses[address.id]`, the record stored now.
CreateReturn(t) ==
    /\ threads[t].pc = "return" /\ threads[t].op = "create"
    /\ threads' = [threads EXCEPT ![t].pc = "respond",
                                  ![t].body = Lookup(addresses, threads[t].id),
                                  ![t].refs = {StoredMaker("address", threads[t].id)}]
    /\ UNCHANGED <<stores, now, nreq, response>>

\* An Update Address request arrives and is decoded.
UpdateStart(t) ==
    /\ threads[t].pc = "idle"
    /\ \E id \in UpdateIds, p \in AddressPatches :
         threads' = [threads EXCEPT ![t] =
                        [Idle EXCEPT !.pc = "read", !.op = "update", !.kind = "address",
                                     !.id = id,
                                     !.payload = model_dump_exclude_unset(
                                                     p, AddressUpdateFields)]]
    /\ UNCHANGED <<stores, now, nreq, response>>

\* `if address_id not in addresses: raise HTTPException(404)`, then
\* `stored = addresses[address_id].model_dump()` and `stored.update(...)`.
UpdateRead(t) ==
    /\ threads[t].pc = "read"
    /\ IF threads[t].id \notin Keys(addresses)
       THEN threads' = [threads EXCEPT ![t].pc = "done", ![t].status = 404,
                                       ![t].body = "Address not found"]
       ELSE threads' = [threads EXCEPT
                           ![t].pc = "write",
                           ![t].model = dict_update(Lookup(addresses, threads[t].id),
                                                    threads[t].payload)]
    /\ UNCHANGED <<stores, now, nreq, response>>

\* `addresses[address_id] = AddressRead(**stored)`
UpdateWrite(t) ==
    /\ threads[t].pc = "write" /\ threads[t].op = "update"
    /\ LET stored == threads[t].model
           read   == AddressRead(stored, stored.id, stored.created_at, stored.updated_at)
       IN  addresses' = Put(addresses, threads[t].id, read)
    /\ threads' = [Unlink(threads, "address", threads[t].id) EXCEPT
                      ![t].pc = "clock", ![t].kept = TRUE]
    /\ UNCHANGED <<persons, organizations, houses, now, nreq, response>>

\* `datetime.utcnow().isoformat()`: the right-hand side of the assignment
\* is evaluated before its target.
UpdateClock(t) ==
    /\ threads[t].pc = "clock"
    /\ \E d \in Ticks :
         /\ now' = utcnow(now, d)
         /\ threads' = [threads EXCEPT ![t].pc = "target", ![t].clock = utcnow(now, d)]
    /\ UNCHANGED <<stores, nreq, response>>

\* `addresses[address_id]`, the target of the assignment: the record stored
\* now.
UpdateTarget(t) ==
    /\ threads[t].pc = "target"
    /\ threads' = [threads EXCEPT ![t].pc = "stamp",
                                  ![t].body = Lookup(addresses, threads[t].id),
                                  ![t].refs = {StoredMaker("address", threads[t].id)}]
    /\ UNCHANGED <<stores, now, nreq, response>>

\* `<target>.updated_at = <clock>`: every thread that holds the target sees
\* the assignment, and the store does if the target is still the record
\* stored.
UpdateStamp(t) ==
    /\ threads[t].pc = "stamp"
    /\ LET k == threads[t].id
           m == CHOOSE w \in threads[t].refs : TRUE
       IN  /\ addresses' = IF threads[m].kept
                           THEN Put(addresses, k,
                                    [Lookup(addresses, k)
                                        EXCEPT !.updated_at = threads[t].clock])
                           ELSE addresses
           /\ threads' = [Restamp(threads, m, threads[t].clock)
                             EXCEPT ![t].pc = "return"]
    /\ UNCHANGED <<persons, organizations, houses, now, nreq, response>>

\* update_address: `return addresses[address_id]`
UpdateReturn(t) ==
    /\ threads[t].pc = "return" /\ threads[t].op = "update"
    /\ threads' = [threads EXCEPT ![t].pc = "respond",
                                  ![t].body = Lookup(addresses, threads[t].id),
                                  ![t].refs = {StoredMaker("address", threads[t].id)}]
    /\ UNCHANGED <<stores, now, nreq, response>>

\* A Get Address or a List Addresses (no filter) request arrives.
ReadStart(t) ==
    /\ threads[t].pc = "idle"
    /\ \E op \in {"get", "list"}, id \in UpdateIds :
         threads' = [threads EXCEPT ![t] =
                        [Idle EXCEPT !.pc = "run", !.op = op, !.kind = "address",
                                     !.id = IF op = "get" THEN id ELSE None]]
    /\ UNCHANGED <<stores, now, nreq, response>>

\* get_address or list_addresses runs and returns the stored objects.
ReadRun(t) ==
    /\ threads[t].pc = "run"
    /\ IF threads[t].op = "list"
       THEN threads' = [threads EXCEPT
                           ![t].pc = "respond",
                           ![t].body = list_addresses(addresses, None, None, None,
                                                      None, None),
                           ![t].refs = {StoredMaker("address", k) : k \in Keys(addresses)}]
       ELSE LET r == get_address(addresses, threads[t].id)
            IN  IF r.status = 404
                THEN threads' = [threads EXCEPT ![t].pc = "done", ![t].status = 404,
                                                ![t].body = r.body]
                ELSE threads' = [threads EXCEPT ![t].pc = "respond",
                                                ![t].body = r.body,
                                                ![t].refs = {StoredMaker("address",
                                                                         threads[t].id)}]
    /\ UNCHANGED <<stores, now, nreq, response>>

\* The handler has returned; FastAPI serialises the objects it returned into
\* the response, as they are now.
Respond(t) ==
    /\ threads[t].pc = "respond"
    /\ threads' = [threads EXCEPT
                      ![t].pc = "done",
                      ![t].status = IF threads[t].op = "create" THEN 201 ELSE 200,
                      ![t].refs = {}]
    /\ UNCHANGED <<stores, now, nreq, response>>

ConcNext ==
    \E t \in Threads :
        \/ CreateStart(t)
        \/ CreateCheck(t)
        \/ CreateBuild(t)
        \/ CreateWrite(t)
        \/ CreateReturn(t)
        \/ UpdateStart(t)
        \/ UpdateRead(t)
        \/ UpdateWrite(t)
        \/ UpdateClock(t)
        \/ UpdateTarget(t)
        \/ UpdateStamp(t)
        \/ UpdateReturn(t)
        \/ ReadStart(t)
        \/ ReadRun(t)
        \/ Respond(t)

ConcSpec == ConcInit /\ [][ConcNext]_vars

\* ------------------------------------------------------------ properties
\* The step handles a request `op` on `kind`.
Handles(op, kind) ==
    /\ nreq' = nreq + 1
    /\ response'.op = op
    /\ response'.kind = kind

\* C1: a Create of an Address, an Organization or a House whose identifier is
\* already a key of its store is answered 400 and leaves that store as it was.
C1_DuplicateCreateRejected ==
    [][\A kind \in CheckedKinds :
          Handles("create", kind) /\ response'.id \in Keys(StoreOf(kind))
              => /\ response'.status = 400
                 /\ StoreOf(kind)' = StoreOf(kind)]_vars

\* C1 witness: a Create was answered 400 for an identifier whose stored record
\* differs from the payload sent.
C1_Witness ==
    \E kind \in CheckedKinds :
        /\ response.op = "create" /\ response.kind = kind /\ response.status = 400
        /\ response.id \in Keys(StoreOf(kind))
        /\ \E f \in DOMAIN response.payload \ {"address"} :
               Lookup(StoreOf(kind), response.id)[f] # response.payload[f]

\* The request of the step reached its handler: FastAPI decodes the body into
\* the update model first, and answers 422 itself when that fails.
Decoded(kind, op, payload) ==
    (kind = "house" /\ op = "update") => HouseUpdate(payload)

\* C2: a Get or an Update whose identifier is not a key of the store is
\* answered 404, whatever payload is sent with it, and changes no store.
C2_NotFoundIsTotal ==
    [][\A kind \in Kinds, op \in {"get", "update"} :
          /\ Handles(op, kind)
          /\ response'.id \notin Keys(StoreOf(kind))
          => /\ response'.status = 404
             /\ stores' = stores]_vars

\* The fields of a supplied address that the stored address carries as given.
AddressAsSupplied(stored, supplied) ==
    \A g \in DOMAIN supplied : stored[g] = supplied[g]

\* Field f of a record carries the value the payload supplies for it; an
\* embedded address is compared on the sub-fields the payload names.
FieldAsSupplied(record, payload, f) ==
    CASE f = "address" -> AddressAsSupplied(record.address, payload.address)
      [] f = "addresses" ->
            /\ Len(record.addresses) = Len(payload.addresses)
            /\ \A i \in 1..Len(payload.addresses) :
                   AddressAsSupplied(record.addresses[i], payload.addresses[i])
      [] OTHER -> record[f] = payload[f]

\* Every record of `before` but the one under key id is in `after` as it was,
\* and the keys are the same.
OthersUnchanged(before, after, id) ==
    /\ Keys(after) = Keys(before)
    /\ \A k \in Keys(before) \ {id} : Lookup(after, k) = Lookup(before, k)

\* C3: a successful Update overwrites exactly the fields its payload supplies
\* (a supplied null included) and leaves every other field but updated_at,
\* every other record and every other store as they were.
C3_UpdateOverwritesSuppliedOnly ==
    [][\A kind \in Kinds :
          Handles("update", kind) /\ response'.status = 200
          => LET id  == response'.id
                 p   == response'.payload
                 old == Lookup(StoreOf(kind), id)
                 new == Lookup(StoreOf(kind)', id)
             IN  /\ DOMAIN new = DOMAIN old
                 /\ \A f \in DOMAIN p : FieldAsSupplied(new, p, f)
                 /\ \A f \in DOMAIN old \ (DOMAIN p \cup {"updated_at"}) : new[f] = old[f]
                 /\ response'.body = new
                 /\ OthersUnchanged(StoreOf(kind), StoreOf(kind)', id)
                 /\ \A other \in Kinds \ {kind} : StoreOf(other)' = StoreOf(other)]_vars

\* C3 witness: an Update that set a phone to null succeeded on a record that
\* keeps an identifier, a creation time and a non-null field it did not name.
C3_Witness ==
    \E kind \in Kinds :
        /\ response.op = "update" /\ response.kind = kind /\ response.status = 200
        /\ "phone" \in DOMAIN response.payload
        /\ response.payload.phone = None
        /\ LET new == Lookup(StoreOf(kind), response.id)
           IN  /\ new.phone = None
               /\ new.id = response.id
               /\ new.created_at < new.updated_at
               /\ \E f \in {"org_name", "last_name", "people"} \cap DOMAIN new :
                      f \notin DOMAIN response.payload

\* C4: an Update of a stored House that supplies a resident list of UNI
\* tokens, such as ["xyz9999"] on a House created with ["abc1234"], succeeds
\* and the House then carries exactly the supplied list.
C4_ResidentListReplaced ==
    /\ response.op = "update" /\ response.kind = "house"
    /\ response.id \in Keys(houses)
    /\ "people" \in DOMAIN response.payload
    /\ \A i \in 1..Len(response.payload.people) : response.payload.people[i] \in UNIs
    => /\ response.status = 200
       /\ get_house(houses, response.id).body.people = response.payload.people

\* What Get answers for an identifier of a kind.
GetOf(kind, id) ==
    CASE kind = "address" -> get_address(addresses, id)
      [] kind = "person" -> get_person(persons, id)
      [] kind = "organization" -> get_organization(organizations, id)
      [] kind = "house" -> get_house(houses, id)

\* C5: right after a successful Create, a Get of the returned identifier
\* answers a record whose created_at equals its updated_at and that carries
\* every supplied field as supplied.
C5_RoundTrip ==
    \A kind \in Kinds :
        response.op = "create" /\ response.kind = kind /\ response.status = 201
        => LET got == GetOf(kind, response.body.id)
           IN  /\ got.status = 200
               /\ got.body.created_at = got.body.updated_at
               /\ \A f \in DOMAIN response.payload :
                      FieldAsSupplied(got.body, response.payload, f)

\* A stored record satisfies the filter on query parameter f.
FieldMatches(kind, record, f, value) ==
    CASE f \in {"city", "country"} /\ kind = "person" ->
            \E i \in 1..Len(record.addresses) : record.addresses[i][f] = value
      [] f \in {"city", "country"} /\ kind \in {"organization", "house"} ->
            record.address[f] = value
      [] f = "person_uni" -> value \in Range(record.people)
      [] f = "birth_date" -> str_date(record.birth_date) = value
      [] OTHER -> record[f] = value

\* C6: List answers exactly the stored records that satisfy every supplied
\* filter, each once; with no filter, every stored record.
C6_ListIsExactlyTheMatches ==
    \A kind \in Kinds :
        response.op = "list" /\ response.kind = kind
        => LET q       == response.payload
               all     == Range(Values(StoreOf(kind)))
               matches == {r \in all : \A f \in DOMAIN q : FieldMatches(kind, r, f, q[f])}
           IN  /\ response.status = 200
               /\ Range(response.body) = matches
               /\ Len(response.body) = Cardinality(matches)
               /\ DOMAIN q = {} => Len(response.body) = Len(StoreOf(kind))

\* C6 witness: a List with two filters answered some of the stored records
\* and left out a record that satisfies one of the two filters.
C6_Witness ==
    \E kind \in Kinds :
        /\ response.op = "list" /\ response.kind = kind
        /\ Cardinality(DOMAIN response.payload) >= 2
        /\ response.body # <<>>
        /\ \E r \in Range(Values(StoreOf(kind))) \ Range(response.body) :
           \E f \in DOMAIN response.payload :
               FieldMatches(kind, r, f, response.payload[f])

\* C6 witness: a List with no filter answered a store of two records.
C6_WitnessAll ==
    /\ response.op = "list" /\ response.payload = <<>>
    /\ Len(response.body) >= 2

\* C7: a successful Update of an Organization or a House that supplies an
\* address leaves no sub-field of the stored address over: a sub-field the
\* supplied address does not name takes its default (null, and for the
\* identifier a new one), a named one the supplied value.
C7_AddressReplacedWholesale ==
    [][\A kind \in {"organization", "house"} :
          /\ Handles("update", kind)
          /\ response'.status = 200
          /\ "address" \in DOMAIN response'.payload
          => LET supplied == response'.payload.address
                 old      == Lookup(StoreOf(kind), response'.id).address
                 new      == Lookup(StoreOf(kind)', response'.id).address
             IN  /\ \A g \in DOMAIN supplied : new[g] = supplied[g]
                 /\ \A g \in AddressText \ DOMAIN supplied : new[g] = None
                 /\ "id" \notin DOMAIN supplied
                        => new.id # old.id /\ new.id \notin UsedIds]_vars

\* C7 witness: an Update supplied an address that names the city only, on a
\* record whose address had a street and a country: both are null now.
C7_Witness ==
    \E kind \in {"organization", "house"} :
        /\ response.op = "update" /\ response.kind = kind /\ response.status = 200
        /\ "address" \in DOMAIN response.payload
        /\ DOMAIN response.payload.address = {"city"}
        /\ LET a == Lookup(StoreOf(kind), response.id).address
           IN  a.street = None /\ a.country = None /\ a.city = response.payload.address.city
        /\ \E p \in OrganizationCreates \cup HouseCreates :
              /\ "id" \in DOMAIN p /\ p.id = response.id
              /\ "address" \in DOMAIN p
              /\ {"street", "country"} \subseteq DOMAIN p.address

\* C8: a Create Person whose identifier is already a key of the Person store
\* is answered 201 and the store then maps the identifier to the new record,
\* the other persons staying as they were; the same on the Address,
\* Organization or House store is answered 400.
C8_PersonCreateHasNoDuplicateCheck ==
    [][/\ Handles("create", "person") /\ response'.id \in Keys(persons)
          => /\ response'.status = 201
             /\ Lookup(persons', response'.id) = response'.body
             /\ \A f \in DOMAIN response'.payload :
                    FieldAsSupplied(response'.body, response'.payload, f)
             /\ OthersUnchanged(persons, persons', response'.id)
       /\ \A kind \in CheckedKinds :
              Handles("create", kind) /\ response'.id \in Keys(StoreOf(kind))
                  => response'.status = 400]_vars

\* C8 witness: a Create Person was answered 201 with a record that stands in
\* the store before one created earlier: its key was there already.
C8_Witness ==
    /\ response.op = "create" /\ response.kind = "person" /\ response.status = 201
    /\ \E i, j \in 1..Len(persons) :
           /\ i < j
           /\ persons[i].v = response.body
           /\ persons[i].v.created_at > persons[j].v.created_at

\* C9: a stored record is never removed, and its content changes only in a
\* successful Update on its identifier.
C9_RecordsChangeOnlyByUpdate ==
    [][\A kind \in Kinds : \A k \in Keys(StoreOf(kind)) :
          /\ k \in Keys(StoreOf(kind)')
          /\ Lookup(StoreOf(kind)', k) # Lookup(StoreOf(kind), k)
                 => /\ Handles("update", kind)
                    /\ response'.id = k
                    /\ response'.status = 200]_vars

\* C10: of two Creates of one kind that carry the same identifier and run at
\* once (no other request running), at most one is answered 201, and the
\* record it stored stays.
C10_ConcurrentCreateIsAtomic ==
    \A t, u \in Threads :
        /\ t # u
        /\ threads[t].op = "create" /\ threads[u].op = "create"
        /\ \A w \in Threads \ {t, u} : threads[w].pc = "idle"
        /\ threads[t].pc = "done" /\ threads[u].pc = "done"
        /\ threads[t].kind = threads[u].kind
        /\ threads[t].id = threads[u].id
        /\ threads[t].status = 201
        => /\ threads[u].status = 400
           /\ Lookup(StoreOf(threads[t].kind), threads[t].id) = threads[t].body

\* C11: when two Updates of one stored Address that supply disjoint sets of
\* fields have both succeeded, the stored record carries the values supplied
\* by both.
C11_ConcurrentUpdatesBothApplied ==
    \A t, u \in Threads :
        /\ t # u
        /\ threads[t].op = "update" /\ threads[u].op = "update"
        /\ threads[t].pc = "done" /\ threads[u].pc = "done"
        /\ threads[t].status = 200 /\ threads[u].status = 200
        /\ threads[t].id = threads[u].id
        /\ DOMAIN threads[t].payload \cap DOMAIN threads[u].payload = {}
        => \A w \in {t, u} : \A f \in DOMAIN threads[w].payload :
               Lookup(addresses, threads[w].id)[f] = threads[w].payload[f]

\* C12: in every reachable state, whatever the interleaving of the running
\* Creates and Updates, every stored record has updated_at >= created_at.
C12_UpdatedNotBeforeCreated ==
    \A kind \in Kinds : \A i \in 1..Len(StoreOf(kind)) :
        StoreOf(kind)[i].v.updated_at >= StoreOf(kind)[i].v.created_at

\* C13: a request answered with an error (400, 404, 422 or 500) leaves the
\* four stores exactly as they were.
C13_FailedOperationChangesNothing ==
    [][nreq' = nreq + 1 /\ response'.status >= 400 => stores' = stores]_vars

\* C13 witness: an Update of a stored record failed while the record was
\* rebuilt from the merged payload (a 500).
C13_Witness ==
    /\ response.op = "update" /\ response.status = 500
    /\ response.id \in Keys(StoreOf(response.kind))
    /\ response.payload # <<>>

\* The records a finished Get or List thread was answered with.
RecordsRead(t) ==
    IF threads[t].op = "get" THEN {threads[t].body} ELSE Range(threads[t].body)

\* C14: a Get or a List that ran while the one Update of a created Address
\* was running was answered with the record as it was created (the fields of
\* the Create) or as the Update left it (the record the Update was answered
\* with), never with the merged fields and the updated_at of before.
C14_ReadsSeeWholeRecords ==
    \A c, u, g \in Threads :
        /\ threads[c].op = "create" /\ threads[c].kind = "address"
        /\ threads[c].pc = "done" /\ threads[c].status = 201
        /\ threads[u].op = "update" /\ threads[u].pc = "done" /\ threads[u].status = 200
        /\ threads[g].op \in {"get", "list"}
        /\ threads[g].pc = "done" /\ threads[g].status = 200
        => \A r \in RecordsRead(g) :
               \/ r = threads[u].body
               \/ \A f \in {"id"} \cup AddressText : r[f] = threads[c].model[f]

\* Every store maps each key to a record whose id is that key.
KeysAreIds ==
    \A kind \in Kinds : \A i \in 1..Len(StoreOf(kind)) :
        StoreOf(kind)[i].v.id = StoreOf(kind)[i].k

\* C15: every key is the id of the record stored under it, and an Update,
\* whatever body it is sent, changes neither the keys of its store nor the
\* id of any record.
C15_IdentifierNeverChanges ==
    /\ []KeysAreIds
    /\ [][\A kind \in Kinds :
             Handles("update", kind)
                 => /\ Keys(StoreOf(kind)') = Keys(StoreOf(kind))
                    /\ \A k \in Keys(StoreOf(kind)) :
                           Lookup(StoreOf(kind)', k).id = k]_vars

\* C15 witness: an Update whose body named another identifier succeeded, and
\* the record answered and stored carries the identifier of the path.
C15_Witness ==
    /\ response.op = "update" /\ response.status = 200
    /\ "id" \in DOMAIN response.sent
    /\ response.sent.id # response.id
    /\ response.body.id = response.id
    /\ Lookup(StoreOf(response.kind), response.id) = response.body

\* C16: a successful Update, whatever fields it supplies, leaves the stored
\* and returned record with an updated_at strictly greater than the one the
\* record had before.
C16_UpdateAdvancesUpdatedAt ==
    [][\A kind \in Kinds :
          Handles("update", kind) /\ response'.status = 200
              => /\ Lookup(StoreOf(kind)', response'.id) = response'.body
                 /\ response'.body.updated_at
                        > Lookup(StoreOf(kind), response'.id).updated_at]_vars

\* Some address of the person has this city / this country.
AnyCity(p, city) == \E i \in 1..Len(p.addresses) : p.addresses[i].city = city
AnyCountry(p, country) == \E i \in 1..Len(p.addresses) : p.addresses[i].country = country

\* C17: List Persons with a city and a country (and no other filter) answers
\* exactly the stored persons with some address in that city and some
\* address, the same or another, in that country, each once.
C17_CityAndCountryIndependent ==
    /\ response.op = "list" /\ response.kind = "person"
    /\ DOMAIN response.payload = {"city", "country"}
    => /\ Range(response.body) =
              {p \in Range(Values(persons)) :
                   /\ AnyCity(p, response.payload.city)
                   /\ AnyCountry(p, response.payload.country)}
       /\ Cardinality(Range(response.body)) = Len(response.body)

\* C17 witness: the answer holds a person none of whose addresses has both
\* the city and the country asked for.
C17_Witness ==
    /\ response.op = "list" /\ response.kind = "person"
    /\ DOMAIN response.payload = {"city", "country"}
    /\ \E i \in 1..Len(response.body) :
           \A j \in 1..Len(response.body[i].addresses) :
               ~ /\ response.body[i].addresses[j].city = response.payload.city
                 /\ response.body[i].addresses[j].country = response.payload.country

\* The address of every stored House is an Address value.
HousesHaveAddress ==
    \A i \in 1..Len(houses) :
        /\ houses[i].v.address # NoneObj
        /\ houses[i].v.address # HouseAddressDefault
        /\ DOMAIN houses[i].v.address = {"id"} \cup AddressText
        /\ houses[i].v.address.id \in UUIDs

\* C18: every stored House has an embedded Address; a Create House whose
\* payload carries no address fails and stores nothing, and List Houses is
\* answered 200.
C18_HouseHasOneAddress ==
    /\ []HousesHaveAddress
    /\ [][/\ Handles("create", "house") /\ "address" \notin DOMAIN response'.payload
              => response'.status >= 400 /\ houses' = houses
          /\ Handles("list", "house") => response'.status = 200]_vars

\* C18 witness: a Create House without an address and with a fresh
\* identifier was refused, the store holding another House.
C18_Witness ==
    /\ response.op = "create" /\ response.kind = "house"
    /\ "address" \notin DOMAIN response.payload
    /\ response.status >= 400
    /\ response.id \notin Keys(houses)
    /\ houses # <<>>

\* C19: an Update of a stored record with a payload its update model accepts
\* is answered 200 with the updated record.
C19_UpdateFailsOnlyNotFound ==
    [][\A kind \in Kinds :
          /\ Handles("update", kind)
          /\ response'.id \in Keys(StoreOf(kind))
          /\ Decoded(kind, "update", response'.payload)
          => /\ response'.status = 200
             /\ response'.body = Lookup(StoreOf(kind)', response'.id)]_vars

\* C20: a request on one entity kind leaves the stores of the other three
\* kinds as they were, and a Create House with an address, resident UNIs and
\* an identifier not in the store succeeds whatever the Person store holds.
C20_StoresAreIndependent ==
    [][/\ \A kind \in Kinds :
              nreq' = nreq + 1 /\ response'.kind = kind
                  => \A other \in Kinds \ {kind} : StoreOf(other)' = StoreOf(other)
       /\ /\ Handles("create", "house")
          /\ response'.id \notin Keys(houses)
          /\ "address" \in DOMAIN response'.payload
          => response'.status = 201]_vars

\* C20 witness: an Update changed a stored Address while an Organization or a
\* House embeds an address with the same identifier, which kept another city.
C20_Witness ==
    /\ response.op = "update" /\ response.kind = "address" /\ response.status = 200
    /\ "city" \in DOMAIN response.payload
    /\ Lookup(addresses, response.id).city = response.payload.city
    /\ \/ \E i \in 1..Len(organizations) :
              /\ organizations[i].v.address.id = response.id
              /\ organizations[i].v.address.city # response.payload.city
       \/ \E i \in 1..Len(houses) :
              /\ houses[i].v.address.id = response.id
              /\ houses[i].v.address.city # response.payload.city

====
